---- MODULE Spec2Model ----
(***************************************************************************)
(* CaroAI (src/app.py): a Streamlit page that parses a resume, asks a      *)
(* generative service for skills, a career roadmap, a skill-gap analysis   *)
(* and course links, and renders them in four tabs.                        *)
(*                                                                         *)
(* Python values are modelled as tagged records (JSON values), texts as    *)
(* sequences of tokens, and an exception that leaves a function as the     *)
(* field exc of the function's outcome.                                    *)
(***************************************************************************)
EXTENDS Integers, Sequences, FiniteSets, TLC

\* ------------------------------------------------------------------------
\* Bounds
\* ------------------------------------------------------------------------
MaxRetries == 3

MaxPages == 2

MaxInput == 2

\* ------------------------------------------------------------------------
\* Python / JSON values
\* ------------------------------------------------------------------------
JStr(s) == [t |-> "str", v |-> s]

JNum(n) == [t |-> "num", n |-> n]

JNull == [t |-> "null"]

JList(items) == [t |-> "list", items |-> items]

JObj(f) == [t |-> "obj", f |-> f]

\* truth value with the empty list taken for true (a test `is not None`)
Truthy_EmptyListTrue(v) ==
    CASE v.t = "str"  -> v.v # ""
      [] v.t = "num"  -> v.n # 0
      [] v.t = "null" -> FALSE
      [] v.t = "list" -> TRUE
      [] v.t = "obj"  -> DOMAIN v.f # {}

\* Python truth value of a value (if x: ...)
Truthy(v) ==
    CASE v.t = "str"  -> v.v # ""
      [] v.t = "num"  -> v.n # 0
      [] v.t = "null" -> FALSE
      [] v.t = "list" -> v.items # <<>>
      [] v.t = "obj"  -> DOMAIN v.f # {}

\* dict.get(key, default)
DictGet(d, key, default) == IF key \in DOMAIN d.f THEN d.f[key] ELSE default

\* isinstance(v, list) and all(isinstance(s, str) for s in v), with the
\* element test dropped
IsListOfStr_NoElemCheck(v) == v.t = "list"

\* isinstance(skills, list) and all(isinstance(s, str) for s in skills)
IsListOfStr(v) ==
    /\ v.t = "list"
    /\ \A i \in 1..Len(v.items) : v.items[i].t = "str"

\* ------------------------------------------------------------------------
\* Texts returned by the generative service: sequences of tokens
\* ------------------------------------------------------------------------
Ws == [k |-> "ws"]

FenceJson == [k |-> "fencejson"]

Fence == [k |-> "fence"]

Junk == [k |-> "junk"]

Doc(v) == [k |-> "json", v |-> v]

Url(host, path, id) == [k |-> "url", host |-> host, path |-> path, id |-> id]

\* str.strip(): drop leading and trailing whitespace
RECURSIVE LStrip(_)
LStrip(s) == IF s # <<>> /\ Head(s).k = "ws" THEN LStrip(Tail(s)) ELSE s

RECURSIVE RStrip(_)
RStrip(s) ==
    IF s # <<>> /\ s[Len(s)].k = "ws" THEN RStrip(SubSeq(s, 1, Len(s) - 1)) ELSE s

Strip(s) == RStrip(LStrip(s))

IsFence(tok) == tok.k \in {"fencejson", "fence"}

NotFence(tok) == ~IsFence(tok)

\* re.sub(r"```json|```", "", text)
ReSubFences(s) == SelectSeq(s, NotFence)

\* response.text.strip(), re.sub(...).strip()
CleanText(s) == Strip(ReSubFences(Strip(s)))

NotWs(tok) == tok.k # "ws"

\* json.loads(text): succeeds iff the text is one JSON document, whitespace
\* around it allowed
JsonLoads(s) ==
    LET body == SelectSeq(s, NotWs)
    IN  IF Len(body) = 1 /\ body[1].k = "json"
        THEN [ok |-> TRUE, v |-> body[1].v]
        ELSE [ok |-> FALSE, v |-> JNull]

\* ------------------------------------------------------------------------
\* Behaviours of model.generate_content(prompt)
\* ------------------------------------------------------------------------
RoadmapFull == JObj([career_advice |-> JStr("plan"), roadmap_svg |-> JStr("<svg>")])

RoadmapNoSvg == JObj([career_advice |-> JStr("plan"), roadmap_svg |-> JStr("")])

RoadmapNoAdvice == JObj([career_advice |-> JStr(""), roadmap_svg |-> JStr("<svg>")])

RoadmapSvgOnly == JObj([roadmap_svg |-> JStr("<svg>")])

GapFull == JObj([missing_skills |-> JList(<<JStr("Docker")>>),
                 priority_skills |-> JList(<<JStr("SQL")>>)])

GapBadValue == JObj([missing_skills |-> JNum(5), priority_skills |-> JList(<<>>)])

Docs ==
    { JList(<<>>), JList(<<JStr("Python"), JStr("SQL")>>),
      JList(<<JStr("Python"), JNum(1)>>),
      JObj(<<>>), RoadmapFull, RoadmapNoSvg, RoadmapNoAdvice, RoadmapSvgOnly,
      GapFull, GapBadValue, JNum(5) }

FencedDocs == { JList(<<JStr("Python"), JStr("SQL")>>), RoadmapFull, GapFull }

YtA == Url("youtube.com", "watch?v=", "a")

YtB == Url("youtu.be", "playlist?list=", "b")

OtherUrl == Url("vimeo.com", "watch?v=", "c")

Texts ==
    { <<Doc(d)>> : d \in Docs }
    \cup { <<FenceJson, Ws, Doc(d), Ws, Fence>> : d \in FencedDocs }
    \cup { <<>>, <<Junk>>, <<Fence, Junk>>, <<Ws, Doc(GapFull), Doc(GapFull)>>,
           <<Ws, Doc(JList(<<JStr("Python"), JStr("SQL")>>)), Ws>>,
           <<YtA, Ws, YtA, Ws, YtB>>, <<OtherUrl>> }

RaiseOnCall == [kind |-> "raise", text |-> <<>>]

RaiseOnText == [kind |-> "textraise", text |-> <<>>]

Behaviours ==
    { RaiseOnCall, RaiseOnText } \cup { [kind |-> "text", text |-> t] : t \in Texts }

\* ------------------------------------------------------------------------
\* The four generative call sites.  Outcome: exc = an exception left the
\* function; val = the value returned; warned = st.warning was called.
\* ------------------------------------------------------------------------
Returned(v, w) == [exc |-> FALSE, val |-> v, warned |-> w]

Escaped == [exc |-> TRUE, val |-> JNull, warned |-> FALSE]

\* the except handler formats response.text: it raises when response was
\* never bound or when the text access raises again
extract_skills(b) ==
    IF b.kind = "raise" THEN Escaped
    ELSE IF b.kind = "textraise" THEN Escaped
    ELSE LET parsed == JsonLoads(CleanText(b.text))
         IN  IF ~parsed.ok THEN Returned(JList(<<>>), TRUE)
             ELSE IF IsListOfStr(parsed.v) THEN Returned(parsed.v, FALSE)
             ELSE Returned(JList(<<>>), TRUE)

RoadmapFallback == <<JStr(""), JStr("")>>

\* the handler reads response.text only if 'response' in locals()
generate_roadmap(b) ==
    IF b.kind = "raise" THEN Returned(RoadmapFallback, TRUE)
    ELSE IF b.kind = "textraise" THEN Escaped
    ELSE LET parsed == JsonLoads(CleanText(b.text))
         IN  IF ~parsed.ok THEN Returned(RoadmapFallback, TRUE)
             ELSE IF parsed.v.t # "obj" THEN Returned(RoadmapFallback, TRUE)
             ELSE Returned(<<DictGet(parsed.v, "career_advice", JStr("")),
                             DictGet(parsed.v, "roadmap_svg", JStr(""))>>, FALSE)

skill_gap_analysis(b) ==
    IF b.kind = "raise" THEN Returned(JObj(<<>>), TRUE)
    ELSE IF b.kind = "textraise" THEN Escaped
    ELSE LET parsed == JsonLoads(CleanText(b.text))
         IN  IF ~parsed.ok THEN Returned(JObj(<<>>), TRUE)
             ELSE Returned(parsed.v, FALSE)

\* the regular expression of re.findall
MatchesYoutube(tok) ==
    /\ tok.k = "url"
    /\ tok.host \in {"youtube.com", "youtu.be"}
    /\ tok.path \in {"watch?v=", "playlist?list="}

\* list(set(...)): the order of the list is unspecified, so the list is
\* modelled as the set of its elements
recommend_courses(b) ==
    IF b.kind = "raise" THEN Returned({}, TRUE)
    ELSE IF b.kind = "textraise" THEN Escaped
    ELSE Returned({ b.text[i] : i \in { j \in 1..Len(b.text) : MatchesYoutube(b.text[j]) } },
                  FALSE)

\* ------------------------------------------------------------------------
\* Resume files and parse_resume
\* ------------------------------------------------------------------------
PdfType == "application/pdf"

WordTypes ==
    { "application/vnd.openxmlformats-officedocument.wordprocessingml.document",
      "application/msword" }

\* page.extract_text(): returns text, returns nothing, or raises
PageOutcomes == { "text", "none", "raise" }

PageSeqs == UNION { [1..n -> PageOutcomes] : n \in 0..MaxPages }

\* docx2txt.process(file): raises, returns "", or returns the body
DocOutcomes == { "raise", "", "body" }

File(type, open_raises, pages, doc) ==
    [type |-> type, open_raises |-> open_raises, pages |-> pages, doc |-> doc]

\* uploaded_file is None
NoFile == File("<none>", FALSE, <<>>, "")

Files ==
    { File(PdfType, FALSE, p, "") : p \in PageSeqs }
    \cup { File(PdfType, TRUE, <<>>, "") }
    \cup { File(ty, FALSE, <<>>, d) : ty \in WordTypes, d \in DocOutcomes }
    \cup { File("text/plain", FALSE, <<>>, "body") }

Parsed(text, warned, opened) == [text |-> text, warned |-> warned, opened |-> opened]

\* the page loop with the text accumulated before a failure thrown away
RECURSIVE ExtractPages_DropOnFailure(_, _)
ExtractPages_DropOnFailure(pages, text) ==
    IF pages = <<>> THEN Parsed(text, FALSE, TRUE)
    ELSE IF Head(pages) = "raise" THEN Parsed(<<>>, TRUE, TRUE)
    ELSE ExtractPages_DropOnFailure(Tail(pages),
            IF Head(pages) = "text" THEN text \o <<"page", "\n">> ELSE text)

\* for page in pdf.pages: ... text += page_text + "\n", inside the try
RECURSIVE ExtractPages(_, _)
ExtractPages(pages, text) ==
    IF pages = <<>> THEN Parsed(text, FALSE, TRUE)
    ELSE IF Head(pages) = "raise" THEN Parsed(text, TRUE, TRUE)
    ELSE ExtractPages(Tail(pages),
            IF Head(pages) = "text" THEN text \o <<"page", "\n">> ELSE text)

parse_resume(file) ==
    IF file.type = PdfType
    THEN IF file.open_raises THEN Parsed(<<>>, TRUE, TRUE)
         ELSE ExtractPages(file.pages, <<>>)
    ELSE IF file.type \in WordTypes
    THEN IF file.doc = "raise" THEN Parsed(<<>>, TRUE, TRUE)
         ELSE IF file.doc = "" THEN Parsed(<<>>, FALSE, TRUE)
         ELSE Parsed(<<file.doc>>, FALSE, TRUE)
    ELSE Parsed(<<>>, FALSE, FALSE)

\* ------------------------------------------------------------------------
\* Manual skill entry: [s.strip() for s in input.split(',') if s.strip()]
\* ------------------------------------------------------------------------
Chars == { "a", " ", "," }

ManualInputs == UNION { [1..n -> Chars] : n \in 0..MaxInput }

\* str.split(','): cur is the segment being read
RECURSIVE SplitComma(_, _)
SplitComma(s, cur) ==
    IF s = <<>> THEN <<cur>>
    ELSE IF Head(s) = "," THEN <<cur>> \o SplitComma(Tail(s), <<>>)
    ELSE SplitComma(Tail(s), Append(cur, Head(s)))

RECURSIVE LStripChars(_)
LStripChars(s) == IF s # <<>> /\ Head(s) = " " THEN LStripChars(Tail(s)) ELSE s

RECURSIVE RStripChars(_)
RStripChars(s) ==
    IF s # <<>> /\ s[Len(s)] = " " THEN RStripChars(SubSeq(s, 1, Len(s) - 1)) ELSE s

StripChars(s) == RStripChars(LStripChars(s))

RECURSIVE Join(_)
Join(s) == IF s = <<>> THEN "" ELSE Head(s) \o Join(Tail(s))

NonBlank(seg) == StripChars(seg) # <<>>

RECURSIVE StripAll(_)
StripAll(segs) ==
    IF segs = <<>> THEN <<>>
    ELSE <<JStr(Join(StripChars(Head(segs))))>> \o StripAll(Tail(segs))

ManualSkills(input) == JList(StripAll(SelectSeq(SplitComma(input, <<>>), NonBlank)))

\* ------------------------------------------------------------------------
\* Rendering helpers of main()
\* ------------------------------------------------------------------------
Msg(lvl, id) == [lvl |-> lvl, id |-> id]

\* the `with tabs[0]` block
RenderCareerTab(pair) ==
    { IF Truthy(pair[1]) THEN "career_advice" ELSE "advice_not_available",
      IF Truthy(pair[2]) THEN "roadmap_svg" ELSE "svg_not_available" }

\* display_courses_with_qr
display_courses_with_qr(video_links) ==
    IF video_links = {} THEN { "no_courses" } ELSE { "course_list", "qr_code" }

\* `for skill in value` works on lists, strings and dicts only
Iterable(v) == v.t \in { "list", "str", "obj" }

\* one of the two lists of the `with tabs[2]` block: gap.get(key), then the
\* loop; crash = the loop raised TypeError
RenderSkillList(gap, key, shown, none) ==
    LET value == DictGet(gap, key, JNull)
    IN  IF ~Truthy(value) THEN [crash |-> FALSE, shows |-> { none }]
        ELSE IF Iterable(value) THEN [crash |-> FALSE, shows |-> { shown }]
        ELSE [crash |-> TRUE, shows |-> {}]

\* the `with tabs[2]` block; crash = an exception left the block
RenderGapTab(gap) ==
    IF ~Truthy(gap) THEN [crash |-> FALSE, shows |-> { "gap_unable_to_perform" }]
    ELSE IF gap.t # "obj" THEN [crash |-> TRUE, shows |-> {}]
    ELSE LET missing == RenderSkillList(gap, "missing_skills", "missing_list", "no_missing")
             priority == RenderSkillList(gap, "priority_skills", "priority_list", "no_priority")
         IN  IF missing.crash THEN missing
             ELSE [crash |-> priority.crash, shows |-> missing.shows \cup priority.shows]

\* the st.warning of a call site's except handler or shape check
SiteWarning(site, out) ==
    IF ~out.exc /\ out.warned THEN { Msg("warning", site) } ELSE {}

Tab(title, shows) == [tab |-> title, shows |-> shows]

\* st.button(...) and name and domain and skills
PlanGate(b, n, d, sk) == b /\ n # "" /\ d # "" /\ Truthy(sk)

\* `if career_advice:` requiring the diagram as well
Accepts_NeedsSvg(pair) == Truthy(pair[1]) /\ Truthy(pair[2])

\* `if career_advice:` of generate_roadmap_with_retry
Accepts(pair) == Truthy(pair[1])

\* ------------------------------------------------------------------------
\* State
\* ------------------------------------------------------------------------
VARIABLES
    name,            \* st.text_input "Enter Your Name"
    domain,          \* selectbox / "Please Specify Your Domain"
    uploaded_file,   \* st.file_uploader
    button,          \* st.button "Generate My Personalized Career Plan"
    manual_input,    \* st.text_input of the manual skills, when rendered
    pc,              \* position of the running evaluation
    retries,         \* parameter of generate_roadmap_with_retry
    parsed,          \* outcome of parse_resume; called = it ran
    skills,          \* local skills of main()
    manual_prompted, \* the manual skills field was rendered
    msgs,            \* st.warning / st.error / st.info / st.success shown so far
    ret,             \* per call site: number of calls and last outcome
    adv_log,         \* per attempt of the retry loop: was its career_advice non-empty
    notices,         \* number of "Retrying roadmap generation" notices
    roadmap_ret,     \* value returned by generate_roadmap_with_retry
    tabs,            \* dashboard tabs rendered so far
    probe,           \* service behaviour handed to a call site called on its own
    api_key,         \* st.secrets.get("GEMINI_API_KEY")
    page             \* how far the last run rendered the page

vars == <<name, domain, uploaded_file, button, manual_input, pc, retries, parsed,
          skills, manual_prompted, msgs, ret, adv_log, notices, roadmap_ret, tabs,
          probe, api_key, page>>

widgets == <<name, domain, uploaded_file, button, probe, api_key>>

Names == { "", "Asha" }

Domains == { "", "Web Development" }

DefaultRetries == 2

Sites == { "extract_skills", "generate_roadmap", "skill_gap_analysis", "recommend_courses" }

NoCall == [n |-> 0, exc |-> FALSE, val |-> JNull, warned |-> FALSE]

Called(site, out) ==
    [ret EXCEPT ![site] = [n |-> ret[site].n + 1, exc |-> out.exc,
                           val |-> out.val, warned |-> out.warned]]

\* st.secrets.get("GEMINI_API_KEY"): None, "" or a key
NoSecret == "<None>"

Secrets == { NoSecret, "", "key" }

\* load_api_key: `if not api_key:` st.error and st.stop()
load_api_key(secret) ==
    IF secret = NoSecret \/ secret = ""
    THEN [stopped |-> TRUE, key |-> secret]
    ELSE [stopped |-> FALSE, key |-> secret]

NoProbe == [kind |-> "none", text |-> <<>>]

NotParsed == [called |-> FALSE, text |-> <<>>, warned |-> FALSE, opened |-> FALSE]

\* the locals of a fresh run of main()
FreshRun ==
    /\ manual_input = <<>>
    /\ parsed = NotParsed
    /\ skills = JList(<<>>)
    /\ manual_prompted = FALSE
    /\ msgs = {}
    /\ ret = [s \in Sites |-> NoCall]
    /\ adv_log = <<>>
    /\ notices = 0
    /\ roadmap_ret = RoadmapFallback
    /\ tabs = <<>>

\* first load of the page: empty name, first domain of the list, no file
Init ==
    /\ name = ""
    /\ domain = "Web Development"
    /\ uploaded_file = NoFile
    /\ button = FALSE
    /\ retries = DefaultRetries
    /\ probe = NoProbe
    /\ api_key \in Secrets
    /\ page = "blank"
    /\ pc = "start"
    /\ FreshRun

\* ------------------------------------------------------------------------
\* One evaluation of main(), cut at its calls to the generative service
\* ------------------------------------------------------------------------

\* lines 179-220 and 230-231: load the key (the run stops there when it is
\* missing), render the inputs, parse the upload and report the result
ParseResume ==
    /\ pc = "start"
    /\ IF load_api_key(api_key).stopped
       THEN /\ msgs' = msgs \cup { Msg("error", "api_key_missing") }
            /\ page' = "halted"
            /\ pc' = "done"
            /\ UNCHANGED parsed
       ELSE /\ page' = "inputs"
            /\ IF uploaded_file = NoFile
               THEN /\ pc' = "gate"
                    /\ UNCHANGED <<parsed, msgs>>
               ELSE LET p == parse_resume(uploaded_file)
                    IN  /\ parsed' = [called |-> TRUE, text |-> p.text,
                                      warned |-> p.warned, opened |-> p.opened]
                        /\ msgs' = msgs
                               \cup (IF p.warned
                                     THEN { Msg("warning", "parsing_failed") } ELSE {})
                               \cup (IF p.text # <<>>
                                     THEN { Msg("success", "resume_parsed") }
                                     ELSE { Msg("error", "could_not_parse") })
                        /\ pc' = IF p.text # <<>> THEN "extract" ELSE "gate"
    /\ UNCHANGED <<widgets, manual_input, retries, skills, manual_prompted, ret,
                   adv_log, notices, roadmap_ret, tabs>>

\* lines 221-229: extract_skills, then the manual field when it found none
ExtractSkills ==
    /\ pc = "extract"
    /\ \E b \in Behaviours :
         LET out == extract_skills(b)
         IN  /\ ret' = Called("extract_skills", out)
             /\ IF out.exc
                THEN /\ pc' = "crashed"
                     /\ UNCHANGED <<manual_input, skills, manual_prompted, msgs>>
                ELSE IF ~Truthy(out.val)
                THEN /\ \E m \in ManualInputs :
                          /\ manual_input' = m
                          /\ skills' = ManualSkills(m)
                     /\ manual_prompted' = TRUE
                     /\ msgs' = msgs \cup SiteWarning("extract_skills", out)
                                     \cup { Msg("warning", "enter_skills_manually") }
                     /\ pc' = "gate"
                ELSE /\ skills' = out.val
                     /\ msgs' = msgs \cup { Msg("info", "extracted_skills") }
                     /\ pc' = "gate"
                     /\ UNCHANGED <<manual_input, manual_prompted>>
    /\ UNCHANGED <<widgets, page, retries, parsed, adv_log, notices, roadmap_ret, tabs>>

\* lines 236-239 and 296-299: the if / elif chain around plan generation
Gate ==
    /\ pc = "gate"
    /\ page' = "full"
    /\ IF PlanGate(button, name, domain, skills)
       THEN IF ~Truthy(skills)
            THEN /\ msgs' = msgs \cup { Msg("warning", "provide_skills") }
                 /\ pc' = "done"
            ELSE /\ pc' = "roadmap"
                 /\ UNCHANGED msgs
       ELSE IF uploaded_file # NoFile /\ (name = "" \/ domain = "")
       THEN /\ msgs' = msgs \cup { Msg("warning", "fill_name_and_domain") }
            /\ pc' = "done"
       ELSE IF uploaded_file = NoFile
       THEN /\ msgs' = msgs \cup { Msg("info", "get_started") }
            /\ pc' = "done"
       ELSE /\ pc' = "done"
            /\ UNCHANGED msgs
    /\ UNCHANGED <<widgets, manual_input, retries, parsed, skills, manual_prompted,
                   ret, adv_log, notices, roadmap_ret, tabs>>

\* number of iterations of `for attempt in range(retries + 1)`
LoopBound(r) == r + 1

\* one iteration of the loop of generate_roadmap_with_retry, with the
\* return that follows the last one
RoadmapAttempt ==
    /\ pc = "roadmap"
    /\ Len(adv_log) < LoopBound(retries)
    /\ \E b \in Behaviours :
         LET out == generate_roadmap(b)
             attempt == Len(adv_log)
         IN  /\ ret' = Called("generate_roadmap", out)
             /\ msgs' = msgs \cup SiteWarning("generate_roadmap", out)
             /\ IF out.exc
                THEN /\ pc' = "crashed"
                     /\ UNCHANGED <<adv_log, notices, roadmap_ret>>
                ELSE /\ adv_log' = Append(adv_log, Truthy(out.val[1]))
                     /\ IF Accepts(out.val)
                        THEN /\ roadmap_ret' = out.val
                             /\ pc' = "roadmap_returned"
                             /\ UNCHANGED notices
                        ELSE /\ notices' = notices + 1
                             /\ roadmap_ret' = RoadmapFallback
                             /\ pc' = IF attempt + 1 < LoopBound(retries)
                                      THEN "roadmap" ELSE "roadmap_returned"
    /\ UNCHANGED <<widgets, page, manual_input, retries, parsed, skills, manual_prompted,
                   tabs>>

\* line 243
GapAnalysis ==
    /\ pc = "roadmap_returned"
    /\ \E b \in Behaviours :
         LET out == skill_gap_analysis(b)
         IN  /\ ret' = Called("skill_gap_analysis", out)
             /\ msgs' = msgs \cup SiteWarning("skill_gap_analysis", out)
             /\ pc' = IF out.exc THEN "crashed" ELSE "courses"
    /\ UNCHANGED <<widgets, page, manual_input, retries, parsed, skills, manual_prompted,
                   adv_log, notices, roadmap_ret, tabs>>

\* lines 244-294: recommend_courses, then the four tabs in order
CoursesAndTabs ==
    /\ pc = "courses"
    /\ \E b \in Behaviours :
         LET out == recommend_courses(b)
             gap == RenderGapTab(ret["skill_gap_analysis"].val)
         IN  /\ ret' = Called("recommend_courses", out)
             /\ msgs' = msgs \cup SiteWarning("recommend_courses", out)
             /\ IF out.exc
                THEN /\ pc' = "crashed"
                     /\ UNCHANGED tabs
                ELSE /\ tabs' = <<Tab("Career Plan", RenderCareerTab(roadmap_ret)),
                                  Tab("Courses", display_courses_with_qr(out.val))>>
                                \o (IF gap.crash THEN <<>>
                                    ELSE <<Tab("Skill Progress", gap.shows),
                                           Tab("Internship Opportunities", { "demo" })>>)
                     /\ pc' = IF gap.crash THEN "crashed" ELSE "done"
    /\ UNCHANGED <<widgets, page, manual_input, retries, parsed, skills, manual_prompted,
                   adv_log, notices, roadmap_ret>>

\* a widget changed: main() runs again from the top.  Only a widget the
\* last run rendered can change: the inputs are rendered at lines 186-208
\* and the button at line 236.
Rerun(n, d, f, bt) ==
    /\ pc = "idle"
    /\ page \in { "inputs", "full" }
    /\ bt => page = "full"
    /\ name' = n
    /\ domain' = d
    /\ uploaded_file' = f
    /\ button' = bt
    /\ pc' = "start"
    /\ UNCHANGED <<manual_input, retries, parsed, skills, manual_prompted, msgs, ret,
                   adv_log, notices, roadmap_ret, tabs, probe, api_key, page>>

\* the script run is over (main() returned, st.stop(), or an exception went
\* up to Streamlit): its locals and its output are dropped, only the widget
\* values stay with the session
EndOfRun ==
    /\ pc \in { "done", "crashed" }
    /\ pc' = "idle"
    /\ manual_input' = <<>>
    /\ parsed' = NotParsed
    /\ skills' = JList(<<>>)
    /\ manual_prompted' = FALSE
    /\ msgs' = {}
    /\ ret' = [s \in Sites |-> NoCall]
    /\ adv_log' = <<>>
    /\ notices' = 0
    /\ roadmap_ret' = RoadmapFallback
    /\ tabs' = <<>>
    /\ UNCHANGED <<widgets, page, retries>>

\* st.button is True only in the run its press triggers
PressButton == Rerun(name, domain, uploaded_file, TRUE)

EditName == \E n \in Names : Rerun(n, domain, uploaded_file, FALSE)

EditDomain == \E d \in Domains : Rerun(name, d, uploaded_file, FALSE)

Upload == \E f \in Files \cup { NoFile } : Rerun(name, domain, f, FALSE)

Next ==
    \/ ParseResume
    \/ ExtractSkills
    \/ Gate
    \/ RoadmapAttempt
    \/ GapAnalysis
    \/ CoursesAndTabs
    \/ EndOfRun
    \/ PressButton
    \/ EditName
    \/ EditDomain
    \/ Upload

Spec == Init /\ [][Next]_vars

\* ------------------------------------------------------------------------
\* generate_roadmap_with_retry called on its own, with any retries
\* ------------------------------------------------------------------------
InitRetry ==
    /\ name \in Names
    /\ domain \in Domains
    /\ uploaded_file = NoFile
    /\ button = FALSE
    /\ retries \in 0..MaxRetries
    /\ probe = NoProbe
    /\ api_key = "key"
    /\ page = "blank"
    /\ pc = "roadmap"
    /\ FreshRun

NextRetry == RoadmapAttempt

SpecRetry == InitRetry /\ [][NextRetry]_vars

\* ------------------------------------------------------------------------
\* The four call sites called on their own with any service behaviour
\* ------------------------------------------------------------------------
InitCall ==
    /\ name = "Asha"
    /\ domain = "Web Development"
    /\ uploaded_file = NoFile
    /\ button = FALSE
    /\ retries = DefaultRetries
    /\ probe \in Behaviours
    /\ api_key = "key"
    /\ page = "blank"
    /\ pc = "call"
    /\ FreshRun

CallSite(site, out) ==
    /\ pc = "call"
    /\ ret' = Called(site, out)
    /\ msgs' = msgs \cup SiteWarning(site, out)
    /\ pc' = "called"
    /\ UNCHANGED <<widgets, page, manual_input, retries, parsed, skills, manual_prompted,
                   adv_log, notices, roadmap_ret, tabs>>

CallExtractSkills == CallSite("extract_skills", extract_skills(probe))

CallGenerateRoadmap == CallSite("generate_roadmap", generate_roadmap(probe))

CallSkillGapAnalysis == CallSite("skill_gap_analysis", skill_gap_analysis(probe))

CallRecommendCourses == CallSite("recommend_courses", recommend_courses(probe))

NextCall ==
    \/ CallExtractSkills
    \/ CallGenerateRoadmap
    \/ CallSkillGapAnalysis
    \/ CallRecommendCourses

SpecCall == InitCall /\ [][NextCall]_vars

\* ------------------------------------------------------------------------
\* Properties
\* ------------------------------------------------------------------------
RoadmapCalls == ret["generate_roadmap"].n

PlanCalls ==
    ret["generate_roadmap"].n + ret["skill_gap_analysis"].n + ret["recommend_courses"].n

GenerativeCalls == PlanCalls + ret["extract_skills"].n

\* a list whose every element is a string
StringArray(v) ==
    /\ v.t = "list"
    /\ \A i \in 1..Len(v.items) : v.items[i].t = "str"

EmptyList(v) == v.t = "list" /\ v.items = <<>>

\* C1: generate_roadmap_with_retry(retries = r) calls generate_roadmap at
\* most r + 1 times; an attempt whose career_advice is non-empty is the last
\* call and its pair is the value returned, empty roadmap_svg included; when
\* every attempt had empty career_advice the wrapper returns ("", "") after
\* exactly r + 1 calls.
C1_RetryContract ==
    /\ RoadmapCalls <= retries + 1
    /\ \A i \in 1..Len(adv_log) :
         adv_log[i] => /\ i = Len(adv_log)
                       /\ RoadmapCalls = i
                       /\ pc = "roadmap_returned"
    /\ pc = "roadmap_returned" =>
         IF adv_log[Len(adv_log)]
         THEN roadmap_ret = ret["generate_roadmap"].val
         ELSE /\ roadmap_ret = <<JStr(""), JStr("")>>
              /\ RoadmapCalls = retries + 1
              /\ \A i \in 1..Len(adv_log) : ~adv_log[i]

\* the second of three allowed attempts gave advice and no diagram, and the
\* wrapper returned it
C1_Witness ==
    /\ pc = "roadmap_returned"
    /\ retries = 2
    /\ adv_log = <<FALSE, TRUE>>
    /\ roadmap_ret = <<JStr("plan"), JStr("")>>

\* C2 as stated: when the button is pressed and the resolved skills list is
\* empty, the evaluation makes no call to the generative service at all.
C2_NoGenerativeCall ==
    (pc = "done" /\ button /\ EmptyList(skills)) => GenerativeCalls = 0

\* C2 amended: when the button is pressed and the resolved skills list is
\* empty, the evaluation makes no roadmap, skill-gap or course call; the one
\* generative call it can make is the skill extraction of a resume whose
\* text is non-empty.
C2_NoPlanCall ==
    (button /\ EmptyList(skills)) =>
        /\ PlanCalls = 0
        /\ pc \notin { "roadmap", "roadmap_returned", "courses" }
        /\ ret["extract_skills"].n <= 1
        /\ ret["extract_skills"].n = 1 => parsed.text # <<>>

\* button pressed with name and domain set, the resume gave no skills and
\* the manual field was left blank: the run ended after one extraction call
C2_Witness ==
    /\ pc = "done"
    /\ button
    /\ name # ""
    /\ domain # ""
    /\ EmptyList(skills)
    /\ manual_prompted
    /\ ret["extract_skills"].n = 1

\* C3: whatever the service does, no exception leaves any of the four call
\* sites.
C3_NoExceptionEscapes == \A s \in Sites : ~ret[s].exc

\* C4: the button pressed with name, domain or skills missing runs none of
\* the plan calls and shows a warning in that evaluation.
C4_BlockedWithWarning ==
    (pc = "done" /\ button /\ (name = "" \/ domain = "" \/ EmptyList(skills))) =>
        /\ PlanCalls = 0
        /\ \E m \in msgs : m.lvl = "warning"

\* C5: an upload whose extraction yields empty text leaves the page with the
\* manual skills field rendered.
C5_ManualPromptOnEmptyText ==
    (pc = "done" /\ parsed.called /\ parsed.text = <<>>) => manual_prompted

\* the documented shape of a skill-gap result
GapShape(v) ==
    /\ v.t = "obj"
    /\ { "missing_skills", "priority_skills" } \subseteq DOMAIN v.f
    /\ StringArray(v.f["missing_skills"])
    /\ StringArray(v.f["priority_skills"])

\* C6: skill_gap_analysis returns an object with missing_skills and
\* priority_skills, each an array of strings, or {}.
C6_GapResultShape ==
    (ret["skill_gap_analysis"].n > 0 /\ ~ret["skill_gap_analysis"].exc) =>
        \/ ret["skill_gap_analysis"].val = JObj(<<>>)
        \/ GapShape(ret["skill_gap_analysis"].val)

\* C7, for the runs in which every call site returned: a plan-generation run
\* never aborts, and once it is over all four tabs are rendered, the Skill
\* Progress tab showing its placeholder when the skill-gap result does not
\* have the documented shape.
C7_AllTabsRendered ==
    (RoadmapCalls > 0 /\ \A s \in Sites : ~ret[s].exc) =>
        /\ pc # "crashed"
        /\ pc = "done" =>
             /\ Len(tabs) = 4
             /\ ~GapShape(ret["skill_gap_analysis"].val) =>
                    "gap_unable_to_perform" \in tabs[3].shows

\* the response parses as JSON
ParsesAsJson(b) == b.kind = "text" /\ JsonLoads(CleanText(b.text)).ok

ParsedJson(b) == JsonLoads(CleanText(b.text)).v

\* C8: every value extract_skills returns is the empty list or a list of
\* strings; a response that parses as JSON but is not a list of strings
\* yields the empty list with a warning, and a list of strings is returned
\* as it is.
C8_ExtractShape ==
    (ret["extract_skills"].n > 0 /\ ~ret["extract_skills"].exc) =>
        /\ StringArray(ret["extract_skills"].val)
        /\ ParsesAsJson(probe) =>
             IF StringArray(ParsedJson(probe))
             THEN ret["extract_skills"].val = ParsedJson(probe)
             ELSE /\ EmptyList(ret["extract_skills"].val)
                  /\ ret["extract_skills"].warned

\* the service answered a JSON list holding a number, and extract_skills
\* returned the empty list with a warning
C8_Witness ==
    /\ pc = "called"
    /\ probe = [kind |-> "text", text |-> <<Doc(JList(<<JStr("Python"), JNum(1)>>))>>]
    /\ ret["extract_skills"].n = 1
    /\ EmptyList(ret["extract_skills"].val)
    /\ ret["extract_skills"].warned

Supported(file) == file.type = PdfType \/ file.type \in WordTypes

\* C9 as stated: a file of an unsupported format, or one whose extraction
\* throws, yields empty text.
C9_EmptyOnFailure ==
    (parsed.called /\ (~Supported(uploaded_file) \/ parsed.warned)) =>
        parsed.text = <<>>

\* index of the first page whose extraction raises, Len + 1 if none
FirstFailure(pages) ==
    IF \E i \in 1..Len(pages) : pages[i] = "raise"
    THEN CHOOSE i \in 1..Len(pages) :
            /\ pages[i] = "raise"
            /\ \A j \in 1..(i - 1) : pages[j] # "raise"
    ELSE Len(pages) + 1

PagesWithTextBefore(pages, k) == { i \in 1..(k - 1) : pages[i] = "text" }

\* C9 amended: parse_resume returns to its caller for every file.  A file of
\* another media type yields "" without being opened and without a warning.
\* A Word document whose extraction throws, and a PDF that cannot be opened,
\* yield "" and a warning.  A PDF whose extraction throws on some page
\* yields a warning and the text of the pages read before that page, one
\* line per page that had text: empty only when none of them had any.
C9_ParseContract ==
    parsed.called =>
        LET f == uploaded_file
            k == FirstFailure(f.pages)
        IN  /\ ~Supported(f) =>
                 parsed.text = <<>> /\ ~parsed.opened /\ ~parsed.warned
            /\ (f.type \in WordTypes /\ f.doc = "raise") =>
                 parsed.text = <<>> /\ parsed.warned
            /\ (f.type = PdfType /\ f.open_raises) =>
                 parsed.text = <<>> /\ parsed.warned
            /\ (f.type = PdfType /\ ~f.open_raises) =>
                 /\ parsed.warned <=> k <= Len(f.pages)
                 /\ Len(parsed.text) = 2 * Cardinality(PagesWithTextBefore(f.pages, k))

\* a PDF whose first page had text and whose second page raised: the text of
\* the first page is returned with a warning
C9_Witness ==
    /\ parsed.called
    /\ uploaded_file = File(PdfType, FALSE, <<"text", "raise">>, "")
    /\ parsed.warned
    /\ parsed.text = <<"page", "\n">>

\* C10: when generate_roadmap_with_retry has returned, it has shown one
\* retry notice less than it made attempts.
C10_NoticesBetweenAttempts ==
    pc = "roadmap_returned" => notices = RoadmapCalls - 1

====
